---------------------------- MODULE Spec2Model ----------------------------
(***************************************************************************)
(* A model of the request pipeline of the WeatherPi enhanced proxy        *)
(* (src/server/app_enhanced.py): the circuit breaker, the sliding-window  *)
(* rate limiter, the two cache layers and the request deduplication of    *)
(* _cached_get, run by concurrent request threads (Flask, threaded=True), *)
(* clear_cache, the retry loop of _upstream_request, the memory cache     *)
(* driven directly as src/test_enhanced_proxy.py drives it, and the       *)
(* routes /api/weather and /api/health inside the _track_request wrapper  *)
(* with the error tracker.                                                 *)
(*                                                                         *)
(* Time is a discrete clock `now` (time.time()); the configured durations *)
(* are scaled down to a few clock ticks.  Every `with self.lock:` block   *)
(* of the source is one atomic step; the code between two such blocks is  *)
(* a position of the thread (pc).  A thread is at "func" from its          *)
(* admission until it holds the lock for the bookkeeping of the outcome.   *)
(***************************************************************************)
EXTENDS Integers, Sequences, FiniteSets, TLC

\* ------------------------------------------------------------------ bounds
NumThreads == 3
MaxTime == 3
MaxFailures == 4
MaxChecks == 5
\* the caches built by the unit tests: EnhancedMemoryCache(max_size, ttl)
MaxSize == 2
MaxTtl == 2
\* the number of cache operations of one unit-test run
MaxOps == 4
\* the largest ERROR_WINDOW_SIZE of the tracker driven directly
MaxLen == 3

\* ------------------------------------------------ configuration (scaled)
\* The values the source reads from the environment (lines 59-77), set to a
\* few clock ticks and a few requests; their order is kept
\* (REQUEST_TIMEOUT <= MEMORY_CACHE_TTL < CACHE_TTL).
CIRCUIT_FAILURE_THRESHOLD == 3
CIRCUIT_RECOVERY_TIMEOUT == 2
CIRCUIT_HALF_OPEN_MAX_CALLS == 2
RATE_LIMIT_REQUESTS == 2
RATE_LIMIT_WINDOW == 2
RATE_LIMIT_BURST == 10
MEMORY_CACHE_SIZE == 1
MEMORY_CACHE_TTL == 1
CACHE_TTL == 2
REQUEST_TIMEOUT == 1
\* line 75 (the default)
MAX_RETRIES == 3
\* line 80, the default; line 81, the default 0.5 in percent; line 308, the
\* default window_seconds of get_error_rate; line 584, the ceiling of the
\* in-flight count (50 in the source, scaled down as the thread count is)
ERROR_WINDOW_SIZE == 100
MAX_ERROR_RATE == 50
WINDOW_SECONDS == 300
ACTIVE_REQUESTS_CEILING == 1
\* the seconds of one clock tick, where the source computes in seconds
TickSeconds == 150

Threads == 1..NumThreads
Clients == {"c1", "c2"}
\* the threads that run _cached_get, the cache keys, the upstream bodies
GetThreads == {1, 2}
ClearThreads == Threads \ GetThreads
LoneGetThreads == {1}
\* the client the requests to the routes come from
ApiClients == {"c1"}
Keys == {"k1", "k2"}
GetKeys == {"k1"}
\* the keys the unit tests of the memory cache use
CacheKeys == {"A", "B", "C"}
Values == {1, 2}
NoKey == "none"
\* the outcome "an exception was raised", where a body is expected
Err == -1

VARIABLES
    now,        \* time.time()
    cb,         \* circuit_breaker.state : CircuitBreakerState
    pc,         \* position of each thread
    probe,      \* history: the thread's current call was admitted at line 237
    windows,    \* rate_limiter.windows : client id -> RateLimitWindow
    rlLog,      \* history: per client, the timestamps of all admitted checks
    rlOut,      \* the last is_allowed call: its client, its result, its number
    mem,        \* memory_cache.cache : key -> CacheEntry (data, timestamp)
    order,      \* memory_cache.access_order : deque of keys
    max_size,   \* memory_cache.max_size
    ttl,        \* memory_cache.ttl
    cOut,       \* the last direct call of the memory cache: operation, key,
                \* returned value (0 is None), number of the call
    used,       \* history: per key, the number of the call that was its most
                \* recent get hit or insertion (0: none)
    stored,     \* history: per key, the data and time of the latest set whose
                \* entry was not evicted or cleared since (data 0: none)
    file,       \* the file cache: key -> (data, st_mtime) of CACHE_DIR/<key>.json
    cacheDir,   \* the state of CACHE_DIR: "ok", "missing" (removed by clear_cache
                \* and not yet made again), "failing" (storage unavailable)
    clr,        \* history of clear_cache: its phase ("none", "running",
                \* "returned"); the keys whose memory / file entry holds a value
                \* that was in the cache when the clear began; the threads whose
                \* local data is such a value; the threads whose lookup was
                \* issued after the clear returned
    src,        \* history, per thread: where its data came from ("mem", "file",
                \* "upstream") and when that value was first stored; "breaker"
                \* when the breaker rejected its upstream call
    born,       \* history, per key: when the value of the memory entry was first
                \* stored (a promotion keeps the time of the file it copies)
    sawExp,     \* history, per thread: the expired memory values its lookup met
    gone,       \* history, per key: the expired values (data, time first
                \* stored) because of which a lookup reported the key absent,
                \* emptied by every set of the key
    up,         \* one call of _upstream_request: its position, the loop index
                \* `attempt`, last_exception, what it returned; and (history) the
                \* outcome of every requests.get and every delay slept, the
                \* delays in units of RETRY_BACKOFF_FACTOR
    dedup,      \* request_deduplication : key -> threading.Event (an event id)
    evSet,      \* the events whose flag is set, each with (history) the outcome
                \* of the fetch whose finally block set it: a body, or Err
    key,        \* per thread: cache_key of its _cached_get call
    data,       \* per thread: the local `data` (0 is None)
    ev,         \* per thread: the event it waits on (0: none)
    wstart,     \* per thread: when its wait began
    woke,       \* history: how the thread's wait ended ("signal", "timeout")
    lead,       \* history: the outcome carried by the event that woke the thread
    errors,     \* error_tracker.errors : deque(maxlen=ERROR_WINDOW_SIZE) of
                \* records (timestamp, type)
    active_requests,    \* the global counter of _track_request
    max_error_rate,     \* MAX_ERROR_RATE as configured, in percent
    maxlen,             \* ERROR_WINDOW_SIZE as configured, the deque's maxlen
    req         \* per thread: the HTTP request it serves: endpoint, client id,
                \* token and coordinates ("ok", "bad"), how far the wrapper
                \* and the route have got (stage), the response status, the
                \* 'status' field of the health body, (history) how many
                \* error records the request has added, and the value of
                \* active_requests it has read and not yet stored (seen)

cbVars == <<cb>>
thVars == <<pc, probe>>
rlVars == <<windows, rlLog, rlOut>>
fileVars == <<file, cacheDir>>
cacheVars == <<mem, order, fileVars>>
histVars == <<clr, src, born, sawExp, gone>>
\* what no step of _cached_get changes
unitVars == <<max_size, ttl, cOut, used, stored>>
cfgVars == <<max_error_rate, maxlen>>
apiVars == <<errors, active_requests, cfgVars, req>>
extVars == <<unitVars, up, apiVars>>
ddVars == <<dedup, evSet>>
locVars == <<key, data, ev, wstart, woke, lead>>
getVars == <<cacheVars, ddVars, locVars, extVars, histVars>>
vars == <<now, cb, pc, probe, windows, rlLog, rlOut,
          mem, order, file, dedup, evSet, key, data, ev, wstart, woke, lead,
          max_size, ttl, cOut, used, stored, cacheDir, clr, src, born, sawExp, gone, up,
          errors, active_requests, max_error_rate, maxlen, req>>

Max(a, b) == IF a >= b THEN a ELSE b

\* ---------------------------------------------------------- construction
CircuitBreakerState ==
    [failures |-> 0, last_failure |-> 0, state |-> "CLOSED", half_open_calls |-> 0]

InitClock == now = 0
InitBreaker == cb = CircuitBreakerState
InitThreads ==
    /\ pc = [t \in Threads |-> "idle"]
    /\ probe = [t \in Threads |-> FALSE]
InitLimiter ==
    /\ windows = [c \in {} |-> 0]
    /\ rlLog = [c \in Clients |-> <<>>]
    /\ rlOut = [client |-> "none", allowed |-> FALSE, n |-> 0]

\* lines 149-155: EnhancedMemoryCache(max_size, ttl)
InitMemory(sz, tl) ==
    /\ mem = [k \in {} |-> 0]
    /\ order = <<>>
    /\ max_size = sz
    /\ ttl = tl
InitHistory ==
    /\ cOut = [op |-> "none", key |-> NoKey, result |-> 0, n |-> 0]
    /\ used = [k \in CacheKeys |-> 0]
    /\ stored = [k \in CacheKeys |-> [data |-> 0, at |-> 0]]
\* line 332: memory_cache = EnhancedMemoryCache(MEMORY_CACHE_SIZE, MEMORY_CACHE_TTL)
\* lines 84-86: CACHE_DIR is made at start-up and holds no entry
InitFiles ==
    /\ file = [k \in {} |-> 0]
    /\ cacheDir = "ok"
NoSource == [from |-> "none", born |-> 0]
InitGetHistory ==
    /\ clr = [phase |-> "none", mem |-> {}, file |-> {}, th |-> {}, after |-> {}]
    /\ src = [t \in Threads |-> NoSource]
    /\ born = [k \in Keys |-> 0]
    /\ sawExp = [t \in Threads |-> {}]
    /\ gone = [k \in Keys |-> {}]
InitCache ==
    /\ InitMemory(MEMORY_CACHE_SIZE, MEMORY_CACHE_TTL)
    /\ InitHistory
    /\ InitFiles
    /\ InitGetHistory
InitDedup ==
    /\ dedup = [k \in {} |-> 0]
    /\ evSet = [e \in {} |-> 0]
InitLocals ==
    /\ key = [t \in Threads |-> NoKey]
    /\ data = [t \in Threads |-> 0]
    /\ ev = [t \in Threads |-> 0]
    /\ wstart = [t \in Threads |-> 0]
    /\ woke = [t \in Threads |-> "none"]
    /\ lead = [t \in Threads |-> 0]

\* no call of _upstream_request is running
NoCall == [pos |-> "idle", attempt |-> 0, last_exception |-> "none",
           result |-> 0, log |-> <<>>, delays |-> <<>>]
InitUpstream == up = NoCall

\* lines 296-298: ErrorTracker() with ERROR_WINDOW_SIZE = size
InitTracker(size) ==
    /\ errors = <<>>
    /\ maxlen = size

\* no request is being served
NoRequest == [endpoint |-> "none", client |-> "none", token |-> "none",
              coords |-> "none", stage |-> "none", status |-> 0, health |-> "none",
              recorded |-> 0, seen |-> 0]
\* lines 335-336 and 296-298: the tracker is empty, no request is in flight;
\* line 81: MAX_ERROR_RATE is rate
InitApi(rate) ==
    /\ InitTracker(ERROR_WINDOW_SIZE)
    /\ active_requests = 0
    /\ max_error_rate = rate
    /\ req = [t \in Threads |-> NoRequest]

Init ==
    /\ InitClock /\ InitBreaker /\ InitThreads /\ InitLimiter
    /\ InitCache /\ InitDedup /\ InitLocals /\ InitUpstream
    /\ InitApi(MAX_ERROR_RATE)

\* time.time() advances
Tick ==
    /\ now < MaxTime
    /\ now' = now + 1
    /\ UNCHANGED <<cbVars, thVars, rlVars, getVars>>

\* ------------------------------------------------------ CircuitBreaker.call
\* line 225: time.time() - self.state.last_failure > CIRCUIT_RECOVERY_TIMEOUT
RecoveryElapsedMutant(s, t) == t - s.last_failure >= CIRCUIT_RECOVERY_TIMEOUT - 1
RecoveryElapsed(s, t) == t - s.last_failure > CIRCUIT_RECOVERY_TIMEOUT

\* lines 224-230: the call is rejected while OPEN and not yet recovered
OpenRejects(s, t) == s.state = "OPEN" /\ ~RecoveryElapsed(s, t)

\* lines 224-228: the state after the OPEN branch, when it does not raise
AfterOpenCheckMutant(s, t) ==
    IF s.state = "OPEN" /\ RecoveryElapsed(s, t)
    THEN [s EXCEPT !.state = "HALF_OPEN"]
    ELSE s
AfterOpenCheck(s, t) ==
    IF s.state = "OPEN" /\ RecoveryElapsed(s, t)
    THEN [s EXCEPT !.state = "HALF_OPEN", !.half_open_calls = 0]
    ELSE s

\* lines 223-238: the admission block, one step under self.lock.
\* The thread goes from `from` to "func" (the wrapped function runs) or to
\* "rejected" (Exception("Circuit breaker is OPEN")).
CBEnter(t, from) ==
    /\ pc[t] = from
    /\ IF OpenRejects(cb, now)
       THEN /\ pc' = [pc EXCEPT ![t] = "rejected"]
            /\ UNCHANGED <<cb, probe>>
       ELSE LET s1 == AfterOpenCheck(cb, now) IN
            IF s1.state = "HALF_OPEN"
            THEN IF s1.half_open_calls >= CIRCUIT_HALF_OPEN_MAX_CALLS
                 THEN /\ cb' = [s1 EXCEPT !.state = "OPEN"]
                      /\ pc' = [pc EXCEPT ![t] = "rejected"]
                      /\ UNCHANGED probe
                 ELSE /\ cb' = [s1 EXCEPT !.half_open_calls = @ + 1]
                      /\ pc' = [pc EXCEPT ![t] = "func"]
                      /\ probe' = [probe EXCEPT ![t] = TRUE]
            ELSE /\ cb' = s1
                 /\ pc' = [pc EXCEPT ![t] = "func"]
                 /\ UNCHANGED probe

\* lines 241-247: the state after the bookkeeping of a success
SuccessStateDecrements(s) ==
    IF s.state = "HALF_OPEN" THEN [s EXCEPT !.state = "CLOSED", !.failures = 0]
    ELSE [s EXCEPT !.failures = Max(0, @ - 1)]
SuccessStateMutant(s) ==
    IF s.state = "CLOSED" THEN [s EXCEPT !.failures = Max(0, @ - 1)]
    ELSE [s EXCEPT !.state = "CLOSED", !.failures = 0]
SuccessStateNoReset(s) ==
    IF s.state = "HALF_OPEN" THEN [s EXCEPT !.state = "CLOSED"]
    ELSE IF s.state = "CLOSED" THEN [s EXCEPT !.failures = Max(0, @ - 1)]
    ELSE s
SuccessState(s) ==
    IF s.state = "HALF_OPEN" THEN [s EXCEPT !.state = "CLOSED", !.failures = 0]
    ELSE IF s.state = "CLOSED" THEN [s EXCEPT !.failures = Max(0, @ - 1)]
    ELSE s

\* lines 250-256: the state after the bookkeeping of a failure
FailureStateLost(s, t) ==
    LET s1 == [s EXCEPT !.failures = IF s.state = "OPEN" THEN @ ELSE @ + 1,
                        !.last_failure = t] IN
    IF s1.failures >= CIRCUIT_FAILURE_THRESHOLD THEN [s1 EXCEPT !.state = "OPEN"] ELSE s1
FailureStatePerAttempt(s, t) ==
    LET s1 == [s EXCEPT !.failures = @ + Max(1, Len(up.log)), !.last_failure = t] IN
    IF s1.failures >= CIRCUIT_FAILURE_THRESHOLD THEN [s1 EXCEPT !.state = "OPEN"] ELSE s1
FailureStateMutant(s, t) ==
    LET s1 == [s EXCEPT !.failures = @ + 1, !.last_failure = t] IN
    IF s1.failures > CIRCUIT_FAILURE_THRESHOLD THEN [s1 EXCEPT !.state = "OPEN"] ELSE s1
FailureStateEq(s, t) ==
    LET s1 == [s EXCEPT !.failures = @ + 1, !.last_failure = t] IN
    IF s1.failures = CIRCUIT_FAILURE_THRESHOLD THEN [s1 EXCEPT !.state = "OPEN"] ELSE s1
FailureState(s, t) ==
    LET s1 == [s EXCEPT !.failures = @ + 1, !.last_failure = t] IN
    IF s1.failures >= CIRCUIT_FAILURE_THRESHOLD THEN [s1 EXCEPT !.state = "OPEN"] ELSE s1

\* lines 240-248: the wrapped function returns; success bookkeeping under
\* self.lock; the result is returned
CBOnSuccess(t) ==
    /\ pc[t] = "func"
    /\ cb' = SuccessState(cb)
    /\ pc' = [pc EXCEPT ![t] = "returned"]
    /\ UNCHANGED probe

\* lines 240, 249-261: the wrapped function raises; failure bookkeeping under
\* self.lock; the exception is raised again
CBOnFailure(t) ==
    /\ pc[t] = "func"
    /\ cb.failures < MaxFailures
    /\ cb' = FailureState(cb, now)
    /\ pc' = [pc EXCEPT ![t] = "raised"]
    /\ UNCHANGED probe

\* --- the breaker driven directly, as the unit tests do: cb.call(func)
CallEnter(t) == CBEnter(t, "idle") /\ UNCHANGED <<now, rlVars, getVars>>
OnSuccess(t) == CBOnSuccess(t) /\ UNCHANGED <<now, rlVars, getVars>>
OnFailure(t) == CBOnFailure(t) /\ UNCHANGED <<now, rlVars, getVars>>

\* the caller of cb.call gets the result or the exception
CallDone(t) ==
    /\ pc[t] \in {"returned", "raised", "rejected"}
    /\ pc' = [pc EXCEPT ![t] = "idle"]
    /\ probe' = [probe EXCEPT ![t] = FALSE]
    /\ UNCHANGED <<now, cbVars, rlVars, getVars>>

\* lines 704-706: reset_circuit_breaker replaces the state object under the lock
ResetBreaker ==
    /\ cb' = CircuitBreakerState
    /\ UNCHANGED <<now, thVars, rlVars, getVars>>

NextCB ==
    \/ Tick
    \/ ResetBreaker
    \/ \E t \in Threads :
         \/ CallEnter(t)
         \/ OnSuccess(t)
         \/ OnFailure(t)
         \/ CallDone(t)

SpecCB == Init /\ [][NextCB]_vars

\* the same, scheduled fairly: the clock goes on, every thread that can call
\* does call (calls keep arriving), a wrapped function that runs comes to its
\* end, and a caller takes its result; whether a wrapped function fails is
\* left open
FairCB ==
    /\ WF_vars(Tick)
    /\ \A t \in Threads :
          /\ WF_vars(CallEnter(t))
          /\ WF_vars(OnSuccess(t) \/ OnFailure(t))
          /\ WF_vars(CallDone(t))

SpecCBLive == Init /\ [][NextCB]_vars /\ FairCB

\* ---------------------------------------------------- RateLimiter.is_allowed
\* lines 268-270: the defaultdict factory, a fresh window
NewWindow == [requests |-> <<>>, tokens |-> RATE_LIMIT_BURST]

\* line 276: self.windows[client_id], created on first use
WindowOfMutant(w, c) ==
    IF DOMAIN w # {} THEN w[CHOOSE x \in DOMAIN w : TRUE] ELSE NewWindow
WindowOf(w, c) == IF c \in DOMAIN w THEN w[c] ELSE NewWindow

\* line 279: now - window.requests[0] > RATE_LIMIT_WINDOW
IsOldMutant(ts, t) == t - ts >= RATE_LIMIT_WINDOW
IsOld(ts, t) == t - ts > RATE_LIMIT_WINDOW

\* lines 279-280: pop from the left while the oldest timestamp is too old
RECURSIVE Purge(_, _)
Purge(q, t) ==
    IF q # <<>> /\ IsOld(Head(q), t) THEN Purge(Tail(q), t) ELSE q

\* line 283: len(window.requests) >= RATE_LIMIT_REQUESTS
AtLimitMutant(q) == Len(q) > RATE_LIMIT_REQUESTS
AtLimit(q) == Len(q) >= RATE_LIMIT_REQUESTS

\* lines 273-290: one check of client c, a single step under self.lock
RLCheck(c) ==
    /\ rlOut.n < MaxChecks
    /\ LET w == WindowOf(windows, c)
           q == Purge(w.requests, now)
           allowed == ~AtLimit(q)
           q2 == IF allowed THEN Append(q, now) ELSE q
       IN /\ windows' = [x \in DOMAIN windows \cup {c} |->
                            IF x = c THEN [w EXCEPT !.requests = q2] ELSE windows[x]]
          /\ rlLog' = IF allowed THEN [rlLog EXCEPT ![c] = Append(@, now)] ELSE rlLog
          /\ rlOut' = [client |-> c, allowed |-> allowed, n |-> rlOut.n + 1]

\* is_allowed called directly, as the unit tests do
IsAllowed(c) ==
    /\ RLCheck(c)
    /\ UNCHANGED <<now, cbVars, thVars, getVars>>

NextRL ==
    \/ Tick
    \/ \E c \in Clients : IsAllowed(c)

SpecRL == Init /\ [][NextRL]_vars

\* ------------------------------------------------------ EnhancedMemoryCache
\* (the statistics and the access_count / last_access fields, which no
\*  operation reads, are left out)
Without(f, k) == [x \in DOMAIN f \ {k} |-> f[x]]
With(f, k, v) == [x \in DOMAIN f \cup {k} |-> IF x = k THEN v ELSE f[x]]
Restrict(f, S) == [x \in DOMAIN f \cap S |-> f[x]]

\* deque.remove(key): the first occurrence, nothing when absent (ValueError)
RECURSIVE RemoveKey(_, _)
RemoveKey(q, k) ==
    IF q = <<>> THEN <<>>
    ELSE IF Head(q) = k THEN Tail(q)
    ELSE <<Head(q)>> \o RemoveKey(Tail(q), k)

\* line 164: time.time() - entry.timestamp > self.ttl
MemExpiredMutant(e, t) == t - e.timestamp > ttl + 1
MemExpiredEarly(e, t) == t - e.timestamp >= ttl
MemExpired(e, t) == t - e.timestamp > ttl

\* lines 157-184: the value get(k) returns (0 is None)
MemGetValue(k) ==
    IF k \notin DOMAIN mem THEN 0
    ELSE IF MemExpired(mem[k], now) THEN 0
    ELSE mem[k].data

\* lines 157-184: the cache after get(k)
MemAfterGetMutant(k) ==
    IF k \notin DOMAIN mem THEN [cache |-> mem, access_order |-> order]
    ELSE IF MemExpired(mem[k], now)
         THEN [cache |-> Without(mem, k), access_order |-> RemoveKey(order, k)]
         ELSE [cache |-> mem, access_order |-> order]
MemAfterGet(k) ==
    IF k \notin DOMAIN mem THEN [cache |-> mem, access_order |-> order]
    ELSE IF MemExpired(mem[k], now)
         THEN [cache |-> Without(mem, k), access_order |-> RemoveKey(order, k)]
         ELSE [cache |-> mem, access_order |-> Append(RemoveKey(order, k), k)]

\* lines 195-201: evict from the left of access_order while the cache is full
EvictMutant(m, o) == [cache |-> m, access_order |-> o]
RECURSIVE Evict(_, _)
Evict(m, o) ==
    IF Cardinality(DOMAIN m) >= max_size /\ o # <<>>
    THEN Evict(Without(m, Head(o)), Tail(o))
    ELSE [cache |-> m, access_order |-> o]

\* lines 186-204: the cache after set(k, d) at time t
MemAfterSet(k, d, t) ==
    IF k \in DOMAIN mem
    THEN [cache |-> [mem EXCEPT ![k] = [data |-> d, timestamp |-> t]],
          access_order |-> order]
    ELSE LET e == Evict(mem, order) IN
         [cache |-> With(e.cache, k, [data |-> d, timestamp |-> t]),
          access_order |-> Append(e.access_order, k)]

\* lines 206-209: clear()
MemAfterClear == [cache |-> [k \in {} |-> 0], access_order |-> <<>>]

\* --- the memory cache driven directly, as the unit tests do: each of
\* cache.get, cache.set, cache.clear is one step under self.lock
NoEntry == [data |-> 0, at |-> 0]

\* lines 157-184: cache.get(k)
CacheGet(k) ==
    /\ cOut.n < MaxOps
    /\ mem' = MemAfterGet(k).cache
    /\ order' = MemAfterGet(k).access_order
    /\ cOut' = [op |-> "get", key |-> k, result |-> MemGetValue(k), n |-> cOut.n + 1]
    /\ used' = IF MemGetValue(k) # 0 THEN [used EXCEPT ![k] = cOut.n + 1] ELSE used
    /\ UNCHANGED <<stored, max_size, ttl>>
    /\ UNCHANGED <<now, cbVars, thVars, rlVars, fileVars, ddVars, locVars, histVars, up, apiVars>>

\* lines 186-204: cache.set(k, d)
CacheSet(k, d) ==
    /\ cOut.n < MaxOps
    /\ mem' = MemAfterSet(k, d, now).cache
    /\ order' = MemAfterSet(k, d, now).access_order
    /\ cOut' = [op |-> "set", key |-> k, result |-> 0, n |-> cOut.n + 1]
    /\ used' = IF k \notin DOMAIN mem THEN [used EXCEPT ![k] = cOut.n + 1] ELSE used
    /\ stored' = [x \in CacheKeys |->
                    IF x = k THEN [data |-> d, at |-> now]
                    ELSE IF x \in DOMAIN mem /\ x \notin DOMAIN mem' THEN NoEntry
                    ELSE stored[x]]
    /\ UNCHANGED <<max_size, ttl>>
    /\ UNCHANGED <<now, cbVars, thVars, rlVars, fileVars, ddVars, locVars, histVars, up, apiVars>>

\* lines 206-209: cache.clear()
CacheClear ==
    /\ cOut.n < MaxOps
    /\ mem' = MemAfterClear.cache
    /\ order' = MemAfterClear.access_order
    /\ cOut' = [op |-> "clear", key |-> NoKey, result |-> 0, n |-> cOut.n + 1]
    /\ stored' = [x \in CacheKeys |-> NoEntry]
    /\ UNCHANGED <<used, max_size, ttl>>
    /\ UNCHANGED <<now, cbVars, thVars, rlVars, fileVars, ddVars, locVars, histVars, up, apiVars>>

\* a cache of any capacity and lifetime the bounds allow
InitUnit ==
    /\ InitClock /\ InitBreaker /\ InitThreads /\ InitLimiter
    /\ \E sz \in 1..MaxSize, tl \in 1..MaxTtl : InitMemory(sz, tl)
    /\ InitHistory
    /\ InitFiles
    /\ InitGetHistory
    /\ InitDedup /\ InitLocals /\ InitUpstream
    /\ InitApi(MAX_ERROR_RATE)

NextCache ==
    \/ Tick
    \/ CacheClear
    \/ \E k \in CacheKeys :
         \/ CacheGet(k)
         \/ \E d \in Values : CacheSet(k, d)

SpecCache == InitUnit /\ [][NextCache]_vars

\* ------------------------------------------------------------- file cache
\* lines 351-365: _file_cache_get (0 is None)
FileGetValue(k) ==
    IF cacheDir # "ok" THEN 0
    ELSE IF k \notin DOMAIN file THEN 0
    ELSE IF now - file[k].mtime > CACHE_TTL THEN 0
    ELSE file[k].data

\* the entries of k as the history names them
MemEntry(k) == [data |-> mem[k].data, born |-> born[k]]
FileEntry(k) == [data |-> file[k].data, born |-> file[k].mtime]
\* lines 161-171: get(k) finds an entry and reports None: the entry is expired
MemExpiredSeen(k) ==
    IF k \in DOMAIN mem /\ MemGetValue(k) = 0 THEN {MemEntry(k)} ELSE {}
\* lines 357-360: the file of k can be read and None is reported: it is too old
FileExpiredSeen(k) ==
    IF cacheDir = "ok" /\ k \in DOMAIN file /\ FileGetValue(k) = 0
    THEN {FileEntry(k)} ELSE {}

\* lines 368-378: the files after _file_cache_set(k, d); a failing write is
\* logged and leaves them as they are
FileAfterSet(k, d, t) ==
    IF cacheDir = "ok" THEN With(file, k, [data |-> d, mtime |-> t]) ELSE file

\* ------------------------------------------------- request deduplication
\* the events still referenced: by the map, or by a thread waiting on one
Referenced(d, e) == {d[k] : k \in DOMAIN d} \cup ({e[t] : t \in Threads} \ {0})
\* threading.Event(): a new object, here the least id not in use
FreshEvent ==
    CHOOSE i \in 1..(NumThreads + Cardinality(Keys) + 1) :
        /\ i \notin Referenced(dedup, ev)
        /\ \A j \in 1..(i - 1) : j \in Referenced(dedup, ev)

\* -------------------------------------------------------- _upstream_request
\* what one requests.get can come to: a 200 answer, a status of line 401, a
\* status for which raise_for_status raises (4xx, other 5xx), any other status
\* (raise_for_status returns), a Timeout, any other RequestException
\* (response.json() of a 200 answer is taken to succeed)
Retriable == {"429", "502", "503", "504"}
Failures == Retriable \cup {"error_status", "other_status", "timeout", "request_exception"}
RECURSIVE Pow2(_)
Pow2(n) == IF n = 0 THEN 1 ELSE 2 * Pow2(n - 1)

\* line 385: range(MAX_RETRIES + 1)
AttemptsMutant == MAX_RETRIES + 2
Attempts == MAX_RETRIES + 1

\* line 383: the call begins, last_exception = None
UpStart ==
    /\ up.pos = "idle"
    /\ up' = [NoCall EXCEPT !.pos = "top"]
    /\ UNCHANGED <<now, cbVars, thVars, rlVars, cacheVars, ddVars, locVars, histVars, unitVars, apiVars>>

\* lines 385-390: the next iteration of the loop, with its sleep when it is a
\* retry; line 416 when the range is used up
UpIterate ==
    /\ up.pos = "top"
    /\ up' = IF up.attempt < Attempts
             THEN [up EXCEPT !.pos = "request",
                             !.delays = IF up.attempt > 0
                                        THEN Append(@, Pow2(up.attempt - 1)) ELSE @]
             ELSE [up EXCEPT !.pos = "raised",
                             !.result = IF up.last_exception = "none"
                                        THEN "all_failed" ELSE up.last_exception]
    /\ UNCHANGED <<now, cbVars, thVars, rlVars, cacheVars, ddVars, locVars, histVars, unitVars, apiVars>>

\* lines 392-400: requests.get is answered with 200 and the body v
UpAnswer(v) ==
    /\ up.pos = "request"
    /\ up' = [up EXCEPT !.pos = "returned", !.result = v,
                        !.log = Append(@, [kind |-> "200", body |-> v])]
    /\ UNCHANGED <<now, cbVars, thVars, rlVars, cacheVars, ddVars, locVars, histVars, unitVars, apiVars>>

\* lines 401-414: requests.get fails in the way o; every branch ends the
\* iteration (raise_for_status raises an HTTPError, which line 412 catches)
UpFail(o) ==
    /\ up.pos = "request"
    /\ up' = [up EXCEPT !.pos = "top",
                        !.attempt = @ + 1,
                        !.last_exception =
                            IF o \in Retriable THEN "http_" \o o
                            ELSE IF o = "error_status" THEN "http_error"
                            ELSE IF o = "other_status" THEN @
                            ELSE o,
                        !.log = Append(@, [kind |-> o, body |-> 0])]
    /\ UNCHANGED <<now, cbVars, thVars, rlVars, cacheVars, ddVars, locVars, histVars, unitVars, apiVars>>

\* the caller has the body or the exception
UpDone ==
    /\ up.pos \in {"returned", "raised"}
    /\ up' = NoCall
    /\ UNCHANGED <<now, cbVars, thVars, rlVars, cacheVars, ddVars, locVars, histVars, unitVars, apiVars>>

NextUp ==
    \/ UpStart
    \/ UpIterate
    \/ \E v \in Values : UpAnswer(v)
    \/ \E o \in Failures : UpFail(o)
    \/ UpDone

SpecUp == Init /\ [][NextUp]_vars

\* ------------------------- circuit_breaker.call(_upstream_request, url, params)
\* line 461 run by one thread on its own: the admission block, then the retry
\* loop as the wrapped function, then the bookkeeping of the loop's outcome
FetchFailures == {"503", "error_status", "timeout"}

\* line 240: the admitted call runs _upstream_request
FetchStart(t) ==
    /\ pc[t] = "func"
    /\ UpStart

\* lines 240-248: _upstream_request returned
FetchReturn(t) ==
    /\ up.pos = "returned"
    /\ OnSuccess(t)

\* lines 249-261: _upstream_request raised
FetchRaise(t) ==
    /\ up.pos = "raised"
    /\ OnFailure(t)

\* line 461: the caller has the body or the exception
FetchDone(t) ==
    /\ pc[t] \in {"returned", "raised", "rejected"}
    /\ pc' = [pc EXCEPT ![t] = "idle"]
    /\ probe' = [probe EXCEPT ![t] = FALSE]
    /\ up' = NoCall
    /\ UNCHANGED <<now, cbVars, rlVars, cacheVars, ddVars, locVars, unitVars, histVars, apiVars>>

NextFetch ==
    \/ Tick
    \/ UpIterate
    \/ \E v \in Values : UpAnswer(v)
    \/ \E o \in FetchFailures : UpFail(o)
    \/ \E t \in LoneGetThreads :
         \/ CallEnter(t)
         \/ FetchStart(t)
         \/ FetchReturn(t)
         \/ FetchRaise(t)
         \/ FetchDone(t)

SpecFetch == Init /\ [][NextFetch]_vars

\* -------------------------------------------------------------- _cached_get
\* lines 421-429: memory_cache.get(cache_key) of a new call for key k
MemLookup(t, k) ==
    /\ pc[t] = "idle"
    /\ key' = [key EXCEPT ![t] = k]
    /\ mem' = MemAfterGet(k).cache
    /\ order' = MemAfterGet(k).access_order
    /\ data' = [data EXCEPT ![t] = MemGetValue(k)]
    /\ pc' = [pc EXCEPT ![t] = IF MemGetValue(k) # 0 THEN "done" ELSE "file"]
    /\ src' = [src EXCEPT ![t] = IF MemGetValue(k) # 0
                                 THEN [from |-> "mem", born |-> born[k]] ELSE NoSource]
    /\ sawExp' = [sawExp EXCEPT ![t] = MemExpiredSeen(k)]
    /\ born' = [x \in Keys |-> IF x \in DOMAIN mem' THEN born[x] ELSE 0]
    /\ clr' = [clr EXCEPT
                 !.mem = @ \cap DOMAIN mem',
                 !.th = IF MemGetValue(k) # 0 /\ k \in clr.mem
                        THEN @ \cup {t} ELSE @ \ {t},
                 !.after = IF clr.phase = "returned" THEN @ \cup {t} ELSE @ \ {t}]
    /\ UNCHANGED <<extVars, now, cbVars, probe, rlVars, fileVars, ddVars, ev, wstart, woke, lead, gone>>

\* lines 432-433 (and 452-453 after a wait): _file_cache_get(cache_key)
FileLookup(t) ==
    /\ pc[t] \in {"file", "re_file"}
    /\ data' = [data EXCEPT ![t] = FileGetValue(key[t])]
    /\ pc' = [pc EXCEPT ![t] =
                IF FileGetValue(key[t]) # 0 THEN "promote"
                ELSE IF pc[t] = "file" THEN "dedup" ELSE "create"]
    /\ src' = [src EXCEPT ![t] = IF FileGetValue(key[t]) # 0
                                 THEN [from |-> "file", born |-> file[key[t]].mtime]
                                 ELSE NoSource]
    /\ clr' = [clr EXCEPT
                 !.th = IF FileGetValue(key[t]) # 0 /\ key[t] \in clr.file
                        THEN @ \cup {t} ELSE @ \ {t}]
    /\ gone' = IF FileGetValue(key[t]) = 0
               THEN [gone EXCEPT ![key[t]] = @ \cup sawExp[t] \cup FileExpiredSeen(key[t])]
               ELSE gone
    /\ sawExp' = [sawExp EXCEPT ![t] = {}]
    /\ UNCHANGED <<extVars, now, cbVars, probe, rlVars, cacheVars, ddVars, key, ev, wstart, woke, lead, born>>

\* lines 438-439 (and 454-455): promote the file-cache value, return it
PromoteMutant(t) ==
    /\ pc[t] = "promote"
    /\ pc' = [pc EXCEPT ![t] = "done"]
    /\ UNCHANGED <<extVars, now, cbVars, probe, rlVars, cacheVars, ddVars, locVars, histVars>>
Promote(t) ==
    /\ pc[t] = "promote"
    /\ mem' = MemAfterSet(key[t], data[t], now).cache
    /\ order' = MemAfterSet(key[t], data[t], now).access_order
    /\ pc' = [pc EXCEPT ![t] = "done"]
    /\ clr' = [clr EXCEPT
                 !.mem = (IF t \in clr.th THEN @ \cup {key[t]} ELSE @ \ {key[t]})
                           \cap DOMAIN mem']
    /\ born' = [x \in Keys |-> IF x = key[t] THEN src[t].born
                                ELSE IF x \in DOMAIN mem' THEN born[x] ELSE 0]
    /\ gone' = [gone EXCEPT ![key[t]] = {}]
    /\ UNCHANGED <<extVars, now, cbVars, probe, rlVars, fileVars, ddVars, locVars, src, sawExp>>

\* line 445: cache_key in request_deduplication
DedupCheck(t) ==
    /\ pc[t] = "dedup"
    /\ pc' = [pc EXCEPT ![t] = IF key[t] \in DOMAIN dedup THEN "lookup" ELSE "create"]
    /\ UNCHANGED <<now, cbVars, probe, rlVars, getVars>>

\* line 447: request_deduplication[cache_key] (KeyError when the entry was
\* popped since line 445), then the wait on that event begins
DedupLookup(t) ==
    /\ pc[t] = "lookup"
    /\ IF key[t] \in DOMAIN dedup
       THEN /\ ev' = [ev EXCEPT ![t] = dedup[key[t]]]
            /\ wstart' = [wstart EXCEPT ![t] = now]
            /\ pc' = [pc EXCEPT ![t] = "wait"]
       ELSE /\ pc' = [pc EXCEPT ![t] = "failed"]
            /\ UNCHANGED <<ev, wstart>>
    /\ UNCHANGED <<extVars, now, cbVars, probe, rlVars, cacheVars, ddVars, key, data, woke, lead, histVars>>

\* line 447: wait() returns because the event is set
WaitSignaled(t) ==
    /\ pc[t] = "wait"
    /\ ev[t] \in DOMAIN evSet
    /\ ev' = [ev EXCEPT ![t] = 0]
    /\ evSet' = Restrict(evSet, Referenced(dedup, ev'))
    /\ woke' = [woke EXCEPT ![t] = "signal"]
    /\ lead' = [lead EXCEPT ![t] = evSet[ev[t]]]
    /\ wstart' = [wstart EXCEPT ![t] = 0]
    /\ pc' = [pc EXCEPT ![t] = "re_mem"]
    /\ UNCHANGED <<extVars, now, cbVars, probe, rlVars, cacheVars, dedup, key, data, histVars>>

\* line 447: wait(timeout=REQUEST_TIMEOUT) returns because the time is up
WaitTimeout(t) ==
    /\ pc[t] = "wait"
    /\ ev[t] \notin DOMAIN evSet
    /\ now - wstart[t] >= REQUEST_TIMEOUT
    /\ ev' = [ev EXCEPT ![t] = 0]
    /\ evSet' = Restrict(evSet, Referenced(dedup, ev'))
    /\ woke' = [woke EXCEPT ![t] = "timeout"]
    /\ wstart' = [wstart EXCEPT ![t] = 0]
    /\ pc' = [pc EXCEPT ![t] = "re_mem"]
    /\ UNCHANGED <<extVars, now, cbVars, probe, rlVars, cacheVars, dedup, key, data, lead, histVars>>

\* lines 449-451: memory_cache.get(cache_key) again after the wait
MemRecheck(t) ==
    /\ pc[t] = "re_mem"
    /\ mem' = MemAfterGet(key[t]).cache
    /\ order' = MemAfterGet(key[t]).access_order
    /\ data' = [data EXCEPT ![t] = MemGetValue(key[t])]
    /\ pc' = [pc EXCEPT ![t] = IF MemGetValue(key[t]) # 0 THEN "done" ELSE "re_file"]
    /\ src' = [src EXCEPT ![t] = IF MemGetValue(key[t]) # 0
                                 THEN [from |-> "mem", born |-> born[key[t]]] ELSE NoSource]
    /\ sawExp' = [sawExp EXCEPT ![t] = @ \cup MemExpiredSeen(key[t])]
    /\ born' = [x \in Keys |-> IF x \in DOMAIN mem' THEN born[x] ELSE 0]
    /\ clr' = [clr EXCEPT
                 !.mem = @ \cap DOMAIN mem',
                 !.th = IF MemGetValue(key[t]) # 0 /\ key[t] \in clr.mem
                        THEN @ \cup {t} ELSE @ \ {t}]
    /\ UNCHANGED <<extVars, now, cbVars, probe, rlVars, fileVars, ddVars, key, ev, wstart, woke, lead, gone>>

\* line 458: request_deduplication[cache_key] = threading.Event()
CreateEvent(t) ==
    /\ pc[t] = "create"
    /\ dedup' = With(dedup, key[t], FreshEvent)
    /\ evSet' = Restrict(evSet, Referenced(dedup', ev))
    /\ pc' = [pc EXCEPT ![t] = "call"]
    /\ UNCHANGED <<extVars, now, cbVars, probe, rlVars, cacheVars, locVars, histVars>>

\* line 462: circuit_breaker.call(_upstream_request, url, params) is entered
UpstreamEnter(t) ==
    /\ CBEnter(t, "call")
    /\ src' = [src EXCEPT ![t] = IF pc'[t] = "rejected"
                                 THEN [from |-> "breaker", born |-> 0] ELSE @]
    /\ UNCHANGED <<extVars, now, rlVars, cacheVars, ddVars, locVars, clr, born, sawExp, gone>>

\* line 462: _upstream_request returns the body v; the breaker books a success
UpstreamSuccess(t, v) ==
    /\ t \in GetThreads
    /\ CBOnSuccess(t)
    /\ data' = [data EXCEPT ![t] = v]
    /\ src' = [src EXCEPT ![t] = [from |-> "upstream", born |-> now]]
    /\ UNCHANGED <<extVars, now, rlVars, cacheVars, ddVars, key, ev, wstart, woke, lead, clr, born, sawExp, gone>>

\* line 462: _upstream_request raises; the breaker books a failure
UpstreamFailure(t) ==
    /\ t \in GetThreads
    /\ CBOnFailure(t)
    /\ UNCHANGED <<now, rlVars, getVars>>

\* line 465: memory_cache.set(cache_key, data)
StoreMem(t) ==
    /\ pc[t] = "returned"
    /\ mem' = MemAfterSet(key[t], data[t], now).cache
    /\ order' = MemAfterSet(key[t], data[t], now).access_order
    /\ pc' = [pc EXCEPT ![t] = "store_file"]
    /\ clr' = [clr EXCEPT !.mem = (@ \ {key[t]}) \cap DOMAIN mem']
    /\ born' = [x \in Keys |-> IF x = key[t] THEN now
                                ELSE IF x \in DOMAIN mem' THEN born[x] ELSE 0]
    /\ gone' = [gone EXCEPT ![key[t]] = {}]
    /\ UNCHANGED <<extVars, now, cbVars, probe, rlVars, fileVars, ddVars, locVars, src, sawExp>>

\* line 466: _file_cache_set(cache_key, data)
StoreFileMutant(t) ==
    /\ pc[t] = "store_file"
    /\ file' = FileAfterSet(key[t], data[t], now)
    /\ pc' = [pc EXCEPT ![t] = IF cacheDir = "ok" THEN "finally" ELSE "raised"]
    /\ UNCHANGED <<extVars, now, cbVars, probe, rlVars, mem, order, cacheDir, ddVars, locVars, histVars>>
StoreFile(t) ==
    /\ pc[t] = "store_file"
    /\ file' = FileAfterSet(key[t], data[t], now)
    /\ pc' = [pc EXCEPT ![t] = "finally"]
    /\ clr' = IF cacheDir = "ok" THEN [clr EXCEPT !.file = @ \ {key[t]}] ELSE clr
    /\ gone' = IF cacheDir = "ok" THEN [gone EXCEPT ![key[t]] = {}] ELSE gone
    /\ UNCHANGED <<extVars, now, cbVars, probe, rlVars, mem, order, cacheDir, ddVars, locVars, src, born, sawExp>>

\* lines 471-475: the finally block: pop the key's entry, whichever event it
\* holds, and set that event; then return data or let the exception go on
FinallyMutant(t) ==
    /\ pc[t] \in {"finally", "raised", "rejected"}
    /\ dedup' = IF pc[t] = "finally" THEN Without(dedup, key[t]) ELSE dedup
    /\ evSet' = Restrict(IF key[t] \in DOMAIN dedup /\ pc[t] = "finally"
                          THEN With(evSet, dedup[key[t]], data[t])
                          ELSE evSet,
                          Referenced(dedup', ev))
    /\ pc' = [pc EXCEPT ![t] = IF pc[t] = "finally" THEN "done" ELSE "failed"]
    /\ UNCHANGED <<extVars, now, cbVars, probe, rlVars, cacheVars, locVars, histVars>>
Finally(t) ==
    /\ pc[t] \in {"finally", "raised", "rejected"}
    /\ dedup' = Without(dedup, key[t])
    /\ evSet' = Restrict(IF key[t] \in DOMAIN dedup
                          THEN With(evSet, dedup[key[t]],
                                    IF pc[t] = "finally" THEN data[t] ELSE Err)
                          ELSE evSet,
                          Referenced(dedup', ev))
    /\ pc' = [pc EXCEPT ![t] = IF pc[t] = "finally" THEN "done" ELSE "failed"]
    /\ UNCHANGED <<extVars, now, cbVars, probe, rlVars, cacheVars, locVars, histVars>>

\* _cached_get has returned (pc "done") or raised (pc "failed") to its caller
GetLeave(t) ==
    /\ pc[t] \in {"done", "failed"}
    /\ pc' = [pc EXCEPT ![t] = "idle"]
    /\ probe' = [probe EXCEPT ![t] = FALSE]
    /\ key' = [key EXCEPT ![t] = NoKey]
    /\ data' = [data EXCEPT ![t] = 0]
    /\ woke' = [woke EXCEPT ![t] = "none"]
    /\ lead' = [lead EXCEPT ![t] = 0]
    /\ src' = [src EXCEPT ![t] = NoSource]
    /\ sawExp' = [sawExp EXCEPT ![t] = {}]
    /\ clr' = [clr EXCEPT !.th = @ \ {t}, !.after = @ \ {t}]
    /\ UNCHANGED <<unitVars, up, now, cbVars, rlVars, cacheVars, ddVars, ev, wstart, born, gone>>

\* _cached_get called on its own: its caller goes on
GetDone(t) ==
    /\ GetLeave(t)
    /\ UNCHANGED apiVars

\* a step of thread t inside _cached_get: on the path that never waits
\* (lines 421-445 and 457-475), or in the wait for a pending fetch (446-455)
DirectSteps(t) ==
    \/ \E k \in GetKeys : MemLookup(t, k)
    \/ FileLookup(t)
    \/ Promote(t)
    \/ DedupCheck(t)
    \/ CreateEvent(t)
    \/ UpstreamEnter(t)
    \/ \E v \in Values : UpstreamSuccess(t, v)
    \/ UpstreamFailure(t)
    \/ StoreMem(t)
    \/ StoreFile(t)
    \/ Finally(t)
DirectCall(t) == DirectSteps(t) \/ GetDone(t)
WaitCall(t) ==
    \/ DedupLookup(t)
    \/ WaitSignaled(t)
    \/ WaitTimeout(t)
    \/ MemRecheck(t)
GetCall(t) == DirectCall(t) \/ WaitCall(t)

NextGet ==
    \/ Tick
    \/ \E t \in GetThreads : GetCall(t)

SpecGet == Init /\ [][NextGet]_vars

\* three request threads within one instant of the clock: no wait runs out
NextBurst ==
    \E t \in Threads :
       \/ DirectCall(t)
       \/ DedupLookup(t)
       \/ WaitSignaled(t)
       \/ MemRecheck(t)

SpecBurst == Init /\ [][NextBurst]_vars

\* -------------------------------------------------------------- clear_cache
\* line 683: memory_cache.clear(), one step under the cache's lock; the
\* history notes what the cache held when the clear began
ClearBegin(t) ==
    /\ pc[t] = "idle"
    /\ mem' = MemAfterClear.cache
    /\ order' = MemAfterClear.access_order
    /\ pc' = [pc EXCEPT ![t] = "rmtree"]
    /\ clr' = [phase |-> "running", mem |-> {}, file |-> DOMAIN file,
               th |-> {u \in Threads : pc[u] = "promote"}, after |-> {}]
    /\ born' = [x \in Keys |-> 0]
    /\ UNCHANGED <<extVars, now, cbVars, probe, rlVars, fileVars, ddVars, locVars, src, sawExp, gone>>

\* the one clear of a run that has a single clear
ClearMemory(t) ==
    /\ clr.phase = "none"
    /\ ClearBegin(t)

\* lines 686-688: shutil.rmtree(CACHE_DIR), when the directory exists
ClearFiles(t) ==
    /\ pc[t] = "rmtree"
    /\ IF cacheDir = "ok"
       THEN /\ file' = [k \in {} |-> 0]
            /\ cacheDir' = "missing"
            /\ pc' = [pc EXCEPT ![t] = "makedirs"]
       ELSE /\ pc' = [pc EXCEPT ![t] = "cleared"]
            /\ UNCHANGED fileVars
    /\ clr' = [clr EXCEPT !.file = DOMAIN file']
    /\ UNCHANGED <<extVars, now, cbVars, probe, rlVars, mem, order, ddVars, locVars, src, born, sawExp, gone>>

\* line 689: os.makedirs(CACHE_DIR, exist_ok=True)
MakeDirs(t) ==
    /\ pc[t] = "makedirs"
    /\ cacheDir' = "ok"
    /\ pc' = [pc EXCEPT ![t] = "cleared"]
    /\ UNCHANGED <<extVars, now, cbVars, probe, rlVars, mem, order, file, ddVars, locVars, histVars>>

\* lines 691-692: clear_cache returns 'Cache cleared'
ClearLeave(t) ==
    /\ pc[t] = "cleared"
    /\ pc' = [pc EXCEPT ![t] = "idle"]
    /\ clr' = [clr EXCEPT !.phase = "returned"]
    /\ UNCHANGED <<unitVars, up, now, cbVars, probe, rlVars, cacheVars, ddVars, locVars, src, born, sawExp, gone>>

\* clear_cache called on its own
ClearReturn(t) ==
    /\ ClearLeave(t)
    /\ UNCHANGED apiVars

\* one thread serves the weather requests while another serves
\* /api/cache/clear; alone, the first never finds a pending fetch to wait for

NextClear ==
    \/ Tick
    \/ \E t \in LoneGetThreads : DirectCall(t)
    \/ \E t \in ClearThreads :
         \/ ClearMemory(t)
         \/ ClearFiles(t)
         \/ MakeDirs(t)
         \/ ClearReturn(t)

SpecClear == Init /\ [][NextClear]_vars

\* ------------------------------------------------- the storage of CACHE_DIR
\* lines 357-365, 374-378: os.stat / open begin to raise (the volume is gone,
\* full or unreadable); the files that were written are still on it
DiskFails ==
    /\ cacheDir = "ok"
    /\ cacheDir' = "failing"
    /\ UNCHANGED <<extVars, now, cbVars, thVars, rlVars, mem, order, file, ddVars, locVars, histVars>>

\* the storage works again
DiskRecovers ==
    /\ cacheDir = "failing"
    /\ cacheDir' = "ok"
    /\ UNCHANGED <<extVars, now, cbVars, thVars, rlVars, mem, order, file, ddVars, locVars, histVars>>

NextDisk ==
    \/ Tick
    \/ DiskFails
    \/ DiskRecovers
    \/ \E t \in LoneGetThreads : DirectCall(t)

SpecDisk == Init /\ [][NextDisk]_vars

\* ------------------------------------------------------------ ErrorTracker
\* lines 300-306: record_error appends under the lock; the deque of
\* maxlen ERROR_WINDOW_SIZE drops its oldest record when it is full
\* line 297: deque(maxlen=ERROR_WINDOW_SIZE) keeps the newest records
KeepMutant(q) ==
    IF Len(q) > maxlen THEN Append(SubSeq(q, 1, maxlen - 1), q[Len(q)]) ELSE q
Keep(q) ==
    IF Len(q) > maxlen
    THEN SubSeq(q, Len(q) - maxlen + 1, Len(q)) ELSE q
RecordError(q, typ, t) == Keep(Append(q, [timestamp |-> t, type |-> typ]))

\* line 311: the records with now - e['timestamp'] <= window_seconds
RecentErrors(q, t) ==
    {i \in 1..Len(q) : (t - q[i].timestamp) * TickSeconds <= WINDOW_SECONDS}

\* lines 312 and 582: get_error_rate() > MAX_ERROR_RATE, the rate being
\* len(recent_errors) / window_seconds and MAX_ERROR_RATE rate / 100
ErrorRateExceeds(q, t, rate) ==
    Cardinality(RecentErrors(q, t)) * 100 > rate * WINDOW_SECONDS

\* src/test_enhanced_proxy.py lines 241-242: the number of records the test
\* injects, and the loop that injects them
InjectedErrors == 50
RecordMany(q, typ, t, n) ==
    Keep(q \o [i \in 1..n |-> [timestamp |-> t, type |-> typ]])

\* (the loop runs once, on the empty tracker of a new process)
InjectErrors ==
    /\ errors = <<>>
    /\ errors' = RecordMany(errors, "test", now, InjectedErrors)
    /\ UNCHANGED <<now, cbVars, thVars, rlVars, cacheVars, ddVars, locVars, unitVars, up,
                   histVars, active_requests, cfgVars, req>>

\* --- the tracker driven directly: record_error(error_type, endpoint)
ErrorTypes == {"http_error", "upstream_error"}

RecordOne(typ) ==
    /\ errors' = RecordError(errors, typ, now)
    /\ UNCHANGED <<now, cbVars, thVars, rlVars, cacheVars, ddVars, locVars, unitVars, up,
                   histVars, active_requests, cfgVars, req>>

\* line 80: ERROR_WINDOW_SIZE is read from the environment
InitSmallTracker ==
    /\ InitClock /\ InitBreaker /\ InitThreads /\ InitLimiter
    /\ InitCache /\ InitDedup /\ InitLocals /\ InitUpstream
    /\ \E size \in 1..MaxLen : InitTracker(size)
    /\ active_requests = 0
    /\ max_error_rate = MAX_ERROR_RATE
    /\ req = [t \in Threads |-> NoRequest]

NextTracker ==
    \/ Tick
    \/ \E typ \in ErrorTypes : RecordOne(typ)

SpecTracker == InitSmallTracker /\ [][NextTracker]_vars

\* ---------------------------------------------------------- _track_request
\* lines 493-499: a request of client c for endpoint e arrives at thread t;
\* the wrapper asks the rate limiter first, and abort(429) leaves the wrapper
\* before its try block
TrackArrive(t, e, c, tok, co) ==
    /\ pc[t] = "idle"
    /\ req[t].stage = "none"
    /\ RLCheck(c)
    /\ req' = [req EXCEPT ![t] =
                 [endpoint |-> e, client |-> c, token |-> tok, coords |-> co,
                  stage |-> IF rlOut'.allowed THEN "admitted" ELSE "resp",
                  status |-> IF rlOut'.allowed THEN 0 ELSE 429,
                  health |-> "none", recorded |-> 0, seen |-> 0]]
    /\ UNCHANGED <<now, cbVars, thVars, cacheVars, ddVars, locVars, unitVars, up, histVars,
                   errors, active_requests, cfgVars>>

\* line 501: active_requests += 1 on the module global, under no lock: the
\* thread reads the global ...
TrackLoad(t) ==
    /\ req[t].stage = "admitted"
    /\ req' = [req EXCEPT ![t].stage = "loaded", ![t].seen = active_requests]
    /\ UNCHANGED <<now, cbVars, thVars, rlVars, cacheVars, ddVars, locVars, unitVars, up,
                   histVars, errors, active_requests, cfgVars>>

\* ... and stores what it read plus one; then the try block calls the route
TrackEnter(t) ==
    /\ req[t].stage = "loaded"
    /\ active_requests' = req[t].seen + 1
    /\ req' = [req EXCEPT ![t].stage = "func", ![t].seen = 0]
    /\ UNCHANGED <<now, cbVars, thVars, rlVars, cacheVars, ddVars, locVars, unitVars, up,
                   histVars, errors, cfgVars>>

\* lines 514-519: except HTTPException: record_error('http_error'), raise
TrackHttpError(t) ==
    /\ req[t].stage = "http_exc"
    /\ errors' = RecordError(errors, "http_error", now)
    /\ req' = [req EXCEPT ![t].stage = "leave", ![t].recorded = @ + 1]
    /\ UNCHANGED <<now, cbVars, thVars, rlVars, cacheVars, ddVars, locVars, unitVars, up,
                   histVars, active_requests, cfgVars>>

\* lines 527-528: finally: active_requests -= 1, under no lock: the thread
\* reads the global ...
TrackUnload(t) ==
    /\ req[t].stage = "leave"
    /\ req' = [req EXCEPT ![t].stage = "unload", ![t].seen = active_requests]
    /\ UNCHANGED <<now, cbVars, thVars, rlVars, cacheVars, ddVars, locVars, unitVars, up,
                   histVars, errors, active_requests, cfgVars>>

\* ... and stores what it read minus one; the response goes out
TrackLeave(t) ==
    /\ req[t].stage = "unload"
    /\ active_requests' = req[t].seen - 1
    /\ req' = [req EXCEPT ![t].stage = "resp", ![t].seen = 0]
    /\ UNCHANGED <<now, cbVars, thVars, rlVars, cacheVars, ddVars, locVars, unitVars, up,
                   histVars, errors, cfgVars>>

\* the client has the response
Respond(t) ==
    /\ req[t].stage = "resp"
    /\ req' = [req EXCEPT ![t] = NoRequest]
    /\ UNCHANGED <<now, cbVars, thVars, rlVars, cacheVars, ddVars, locVars, unitVars, up,
                   histVars, errors, active_requests, cfgVars>>

\* ------------------------------------------------------------- /api/weather
\* (PROXY_TOKEN and OPENWEATHER_KEY are configured)
\* lines 601-618: _require_token, then the validation of lat and lon
WeatherCheck(t) ==
    /\ req[t].stage = "func"
    /\ req[t].endpoint = "weather"
    /\ req' = [req EXCEPT
                 ![t].stage = IF req[t].token = "ok" /\ req[t].coords = "ok"
                              THEN "get" ELSE "http_exc",
                 ![t].status = IF req[t].token # "ok" THEN 401
                               ELSE IF req[t].coords # "ok" THEN 400 ELSE 0]
    /\ UNCHANGED <<now, cbVars, thVars, rlVars, cacheVars, ddVars, locVars, unitVars, up,
                   histVars, errors, active_requests, cfgVars>>

\* line 628: _cached_get runs
WeatherGet(t) ==
    /\ req[t].stage = "get"
    /\ DirectSteps(t)

\* lines 628-629 and 506-512: _cached_get returned, jsonify(data)
WeatherReturn(t) ==
    /\ req[t].stage = "get"
    /\ pc[t] = "done"
    /\ GetLeave(t)
    /\ req' = [req EXCEPT ![t].stage = "leave", ![t].status = 200]
    /\ UNCHANGED <<errors, active_requests, cfgVars>>

\* lines 630-633: except Exception: record_error('upstream_error'),
\* abort(502), whatever _cached_get raised
WeatherFail(t) ==
    /\ req[t].stage = "get"
    /\ pc[t] = "failed"
    /\ GetLeave(t)
    /\ errors' = RecordError(errors, "upstream_error", now)
    /\ req' = [req EXCEPT ![t].stage = "http_exc", ![t].status = 502,
                          ![t].recorded = @ + 1]
    /\ UNCHANGED <<active_requests, cfgVars>>

Tokens == {"ok", "bad"}
Coords == {"ok", "bad"}

\* one weather request after the other, served by one thread
WeatherCall(t) ==
    \/ \E c \in ApiClients, tok \in Tokens, co \in Coords :
          TrackArrive(t, "weather", c, tok, co)
    \/ TrackLoad(t)
    \/ TrackEnter(t)
    \/ WeatherCheck(t)
    \/ WeatherGet(t)
    \/ WeatherReturn(t)
    \/ WeatherFail(t)
    \/ TrackHttpError(t)
    \/ TrackUnload(t)
    \/ TrackLeave(t)
    \/ Respond(t)

NextApi ==
    \/ Tick
    \/ \E t \in LoneGetThreads : WeatherCall(t)

SpecApi == Init /\ [][NextApi]_vars

\* -------------------------------------------------------------- /api/health
\* lines 582-584: the test of the health route
DegradedMutant(q, s, a, t, rate) ==
    \/ ErrorRateExceeds(q, t, rate)
    \/ s.state = "OPEN"
Degraded(q, s, a, t, rate) ==
    \/ ErrorRateExceeds(q, t, rate)
    \/ s.state = "OPEN"
    \/ a > ACTIVE_REQUESTS_CEILING

\* lines 541-587: the route builds the status and tests it
HealthBody(t) ==
    /\ req[t].stage = "func"
    /\ req[t].endpoint = "health"
    /\ LET d == Degraded(errors, cb, active_requests, now, max_error_rate) IN
       req' = [req EXCEPT ![t].stage = "leave",
                          ![t].status = IF d THEN 503 ELSE 200,
                          ![t].health = IF d THEN "degraded" ELSE "ok"]
    /\ UNCHANGED <<now, cbVars, thVars, rlVars, cacheVars, ddVars, locVars, unitVars, up,
                   histVars, errors, active_requests, cfgVars>>

HealthCall(t) ==
    \/ \E c \in ApiClients : TrackArrive(t, "health", c, "none", "none")
    \/ TrackLoad(t)
    \/ TrackEnter(t)
    \/ HealthBody(t)
    \/ TrackUnload(t)
    \/ TrackLeave(t)
    \/ Respond(t)

\* line 81: the values of MAX_ERROR_RATE the runs are configured with, in
\* percent: the default and a low one
ErrorRates == {MAX_ERROR_RATE, 10}

\* the breaker as the health requests find it, no call being in flight: new,
\* or opened by CIRCUIT_FAILURE_THRESHOLD failures at time 0
BreakerStates ==
    {CircuitBreakerState,
     [failures |-> CIRCUIT_FAILURE_THRESHOLD, last_failure |-> 0,
      state |-> "OPEN", half_open_calls |-> 0]}

InitHealth ==
    /\ InitClock /\ cb \in BreakerStates /\ InitThreads /\ InitLimiter
    /\ InitCache /\ InitDedup /\ InitLocals /\ InitUpstream
    /\ \E rate \in ErrorRates : InitApi(rate)

\* health requests served by two threads, beside the injection of errors
\* of the test
NextHealth ==
    \/ Tick
    \/ InjectErrors
    \/ \E t \in GetThreads : HealthCall(t)

SpecHealth == InitHealth /\ [][NextHealth]_vars

\* ======================================================================
\* Properties of the circuit breaker (checked under SpecCB)
\* ======================================================================
\* the steps of one call of thread t, read off its position
EnterStep(t) == pc[t] = "idle" /\ pc'[t] \in {"func", "rejected"}
SuccessStep(t) == pc[t] = "func" /\ pc'[t] = "returned"
FailureStep(t) == pc[t] = "func" /\ pc'[t] = "raised"
\* a step of CircuitBreaker.call (reset_circuit_breaker and the clock move no thread)
CallStep == \E t \in Threads : EnterStep(t) \/ SuccessStep(t) \/ FailureStep(t)
ProbesRunning == {t \in Threads : pc[t] = "func" /\ probe[t]}

\* the edges of the state machine of spec section 4.2
EdgeCloseToOpen ==
    /\ cb.state = "CLOSED" /\ cb'.state = "OPEN"
    /\ \E t \in Threads : FailureStep(t)
    /\ cb'.failures = cb.failures + 1
    /\ cb'.failures >= CIRCUIT_FAILURE_THRESHOLD
EdgeOpenToHalfOpen ==
    /\ cb.state = "OPEN" /\ cb'.state = "HALF_OPEN"
    /\ \E t \in Threads : EnterStep(t)
    /\ now - cb.last_failure >= CIRCUIT_RECOVERY_TIMEOUT
EdgeHalfOpenToClosed ==
    /\ cb.state = "HALF_OPEN" /\ cb'.state = "CLOSED"
    /\ \E t \in Threads : SuccessStep(t)
EdgeHalfOpenToOpenOnFailure ==
    /\ cb.state = "HALF_OPEN" /\ cb'.state = "OPEN"
    /\ \E t \in Threads : FailureStep(t)
\* lines 233-236: a call that finds the probe budget used up re-opens the breaker
EdgeHalfOpenToOpenOnProbeLimit ==
    /\ cb.state = "HALF_OPEN" /\ cb'.state = "OPEN"
    /\ \E t \in Threads : EnterStep(t) /\ pc'[t] = "rejected"
    /\ cb.half_open_calls >= CIRCUIT_HALF_OPEN_MAX_CALLS

C4_OpenRejectsUnchanged ==
    [][\A t \in Threads :
          (EnterStep(t) /\ cb.state = "OPEN"
             /\ now - cb.last_failure < CIRCUIT_RECOVERY_TIMEOUT)
          => (pc'[t] = "rejected" /\ cb' = cb)]_vars

\* C4 witness: a call has just been rejected by an OPEN breaker inside the timeout
C4_Witness ==
    /\ cb.state = "OPEN"
    /\ now - cb.last_failure < CIRCUIT_RECOVERY_TIMEOUT
    /\ \E t \in Threads : pc[t] = "rejected"

\* C5: while HALF_OPEN, at most CIRCUIT_HALF_OPEN_MAX_CALLS calls admitted as
\* probes are executing the wrapped function at the same time.
C5_ProbeLimit ==
    cb.state = "HALF_OPEN" => Cardinality(ProbesRunning) <= CIRCUIT_HALF_OPEN_MAX_CALLS

\* C6 (as claimed): a call that starts while OPEN with
\* now - last_failure >= CIRCUIT_RECOVERY_TIMEOUT moves the breaker to HALF_OPEN
\* and runs the wrapped function.
C6_RecoveryAtTimeout ==
    [][\A t \in Threads :
          (EnterStep(t) /\ cb.state = "OPEN"
             /\ now - cb.last_failure >= CIRCUIT_RECOVERY_TIMEOUT)
          => (cb'.state = "HALF_OPEN" /\ pc'[t] = "func")]_vars

\* C6 (amended): the same for now - last_failure > CIRCUIT_RECOVERY_TIMEOUT
\* (strictly); the call is the first probe (half_open_calls = 1).
C6_RecoveryAfterTimeout ==
    [][\A t \in Threads :
          (EnterStep(t) /\ cb.state = "OPEN"
             /\ now - cb.last_failure > CIRCUIT_RECOVERY_TIMEOUT)
          => (cb'.state = "HALF_OPEN" /\ cb'.half_open_calls = 1 /\ pc'[t] = "func")]_vars

\* C6 witness: the first probe after the timeout is running, nothing else is
C6_Witness ==
    /\ cb.state = "HALF_OPEN"
    /\ cb.half_open_calls = 1
    /\ now - cb.last_failure > CIRCUIT_RECOVERY_TIMEOUT
    /\ \E t \in Threads :
         /\ pc[t] = "func" /\ probe[t]
         /\ \A u \in Threads \ {t} : pc[u] = "idle"

\* C7 (as claimed): when the wrapped function of a probe returns successfully,
\* the breaker is CLOSED with failures = 0 once the call's bookkeeping is done.
C7_ProbeSuccessCloses ==
    [][\A t \in Threads :
          (SuccessStep(t) /\ probe[t])
          => (cb'.state = "CLOSED" /\ cb'.failures = 0)]_vars

\* C7 (amended): the same, provided the breaker is still HALF_OPEN when the
\* bookkeeping of the successful probe runs.
C7_ProbeSuccessInHalfOpenCloses ==
    [][\A t \in Threads :
          (SuccessStep(t) /\ probe[t] /\ cb.state = "HALF_OPEN")
          => (cb'.state = "CLOSED" /\ cb'.failures = 0)]_vars

\* C7 witness: a probe has returned with success and closed the breaker
C7_Witness ==
    /\ cb.state = "CLOSED"
    /\ cb.failures = 0
    /\ cb.half_open_calls >= 1
    /\ \E t \in Threads : pc[t] = "returned" /\ probe[t]

\* C8 (as claimed): a failure while HALF_OPEN re-opens the breaker and resets
\* half_open_calls to 0 in the same step.
C8_HalfOpenFailureResetsProbes ==
    [][\A t \in Threads :
          (FailureStep(t) /\ cb.state = "HALF_OPEN")
          => (cb'.state = "OPEN" /\ cb'.half_open_calls = 0)]_vars

\* C8 (amended): a failure while HALF_OPEN re-opens the breaker and records
\* last_failure; half_open_calls is left as it is in that step.
C8_HalfOpenFailureReopens ==
    [][\A t \in Threads :
          (FailureStep(t) /\ cb.state = "HALF_OPEN")
          => /\ cb'.state = "OPEN"
             /\ cb'.last_failure = now
             /\ cb'.half_open_calls = cb.half_open_calls]_vars

\* C8 witness: a probe has failed and the breaker is OPEN again
C8_Witness ==
    /\ cb.state = "OPEN"
    /\ cb.failures > CIRCUIT_FAILURE_THRESHOLD
    /\ cb.last_failure = now
    /\ \E t \in Threads : pc[t] = "raised" /\ probe[t]

\* C9: while CLOSED a failed call raises failures by exactly 1 and a successful
\* call lowers it by 1 but not below 0; the breaker opens, recording
\* last_failure, exactly on the failure that brings failures to the threshold.
C9_ClosedCounting ==
    [][\A t \in Threads :
          /\ (FailureStep(t) /\ cb.state = "CLOSED")
             => /\ cb'.failures = cb.failures + 1
                /\ cb'.state = (IF cb.failures + 1 = CIRCUIT_FAILURE_THRESHOLD
                                THEN "OPEN" ELSE "CLOSED")
                /\ cb.failures + 1 <= CIRCUIT_FAILURE_THRESHOLD
                /\ cb'.last_failure = now
          /\ (SuccessStep(t) /\ cb.state = "CLOSED")
             => /\ cb'.failures = Max(0, cb.failures - 1)
                /\ cb'.state = "CLOSED"]_vars

\* C9 witness: the third failure in a row has just opened the breaker
C9_Witness ==
    /\ cb.state = "OPEN"
    /\ cb.failures = CIRCUIT_FAILURE_THRESHOLD
    /\ cb.half_open_calls = 0
    /\ cb.last_failure = now
    /\ \E t \in Threads : pc[t] = "raised" /\ ~probe[t]

\* C25: the failure bookkeeping of concurrent calls admitted in CLOSED is
\* linearized: every failure adds exactly 1 to the count as the failure before
\* it left it (no increment is lost); the failure that takes the breaker from
\* CLOSED to OPEN is the one that brings the count to the threshold, and no
\* other; a failure that finds the breaker already OPEN counts and leaves it
\* OPEN, and no step takes an OPEN breaker to OPEN again by way of CLOSED.
C25_FailuresLinearized ==
    [][/\ \A t \in Threads :
             (FailureStep(t) /\ ~probe[t]) =>
                /\ cb'.failures = cb.failures + 1
                /\ cb.state = "CLOSED" =>
                      (cb'.state = "OPEN" <=> cb'.failures = CIRCUIT_FAILURE_THRESHOLD)
                /\ cb.state = "CLOSED" => cb'.state \in {"CLOSED", "OPEN"}
                /\ cb.state = "OPEN" => cb'.state = "OPEN"
       /\ (cb.state = "CLOSED" /\ cb'.state = "OPEN") =>
             /\ cb.failures = CIRCUIT_FAILURE_THRESHOLD - 1
             /\ \E t \in Threads : FailureStep(t)]_vars

\* C25 witness: every thread was admitted in CLOSED and has failed; one of the
\* failures opened the breaker at the threshold and a later one found it OPEN
C25_Witness ==
    /\ \A t \in Threads : pc[t] = "raised" /\ ~probe[t]
    /\ cb.state = "OPEN"
    /\ cb.failures = CIRCUIT_FAILURE_THRESHOLD + 1
    /\ cb.half_open_calls = 0

\* no wrapped call fails in this step
NoFailureStep == \A t \in Threads : ~(pc[t] = "func" /\ pc'[t] = "raised")

\* C37: if from some moment on no wrapped call fails and the clock gets past
\* the recovery timeout of the last failure, then, calls arriving forever
\* under fair scheduling (also concurrently), a breaker that is OPEN is
\* CLOSED at some later moment.
C37_OpenEventuallyCloses ==
    (<>[][NoFailureStep]_vars /\ <>[](RecoveryElapsed(cb, now)))
       => [](cb.state = "OPEN" => <>(cb.state = "CLOSED"))

\* C36: in every state reached through CircuitBreaker.call and
\* reset_circuit_breaker, failures is never negative, and while the breaker
\* is OPEN or HALF_OPEN failures is at least CIRCUIT_FAILURE_THRESHOLD.
C36_OpenMeansThreshold ==
    /\ cb.failures >= 0
    /\ cb.state \in {"OPEN", "HALF_OPEN"} => cb.failures >= CIRCUIT_FAILURE_THRESHOLD

\* C36 witness: a call admitted in CLOSED has returned while the breaker,
\* opened by the failures of the other calls, is OPEN at the threshold
C36_Witness ==
    /\ cb.state = "OPEN"
    /\ cb.failures = CIRCUIT_FAILURE_THRESHOLD
    /\ \E t \in Threads : pc[t] = "returned" /\ ~probe[t]
    /\ \E t \in Threads : pc[t] = "raised"

\* ======================================================================
\* Properties of the rate limiter (checked under SpecRL)
\* ======================================================================
\* the admitted checks of client c whose timestamp lies in the trailing window
RecentAdmitted(c, t) ==
    {i \in 1..Len(rlLog[c]) : t - rlLog[c][i] <= RATE_LIMIT_WINDOW}
CheckStep(c) == rlOut'.n = rlOut.n + 1 /\ rlOut'.client = c

\* C10: is_allowed(c) at time now returns True exactly when fewer than
\* RATE_LIMIT_REQUESTS earlier admitted checks of c have timestamps within the
\* trailing RATE_LIMIT_WINDOW, and records now exactly when it returns True.
C10_SlidingWindow ==
    [][\A c \in Clients :
          CheckStep(c) =>
            /\ rlOut'.allowed =
                 (Cardinality(RecentAdmitted(c, now)) < RATE_LIMIT_REQUESTS)
            /\ Len(windows'[c].requests) =
                 Cardinality(RecentAdmitted(c, now)) + (IF rlOut'.allowed THEN 1 ELSE 0)
            /\ rlOut'.allowed =>
                 windows'[c].requests[Len(windows'[c].requests)] = now]_vars

\* C10 witness: RATE_LIMIT_REQUESTS checks of one client were admitted inside
\* one window and the next one has just been rejected
C10_Witness ==
    \E c \in Clients :
       /\ rlOut.client = c /\ ~rlOut.allowed
       /\ Len(rlLog[c]) = RATE_LIMIT_REQUESTS
       /\ Cardinality(RecentAdmitted(c, now)) = RATE_LIMIT_REQUESTS

\* C10 witness of the sliding: a check admitted only because older admitted
\* checks have left the window
C10_WitnessSlid ==
    \E c \in Clients :
       /\ rlOut.client = c /\ rlOut.allowed
       /\ Len(rlLog[c]) > RATE_LIMIT_REQUESTS

\* C11: is_allowed(c) leaves the window of every other client as it was
\* (created or not, and its contents), and its outcome is fixed by the admitted
\* checks of c alone: the checks of the other clients, a client that has
\* exhausted its quota included, have no part in it.
C11_ClientsIndependent ==
    [][\A c \in Clients :
          CheckStep(c) =>
            /\ \A d \in Clients \ {c} :
                  /\ (d \in DOMAIN windows') = (d \in DOMAIN windows)
                  /\ d \in DOMAIN windows => windows'[d] = windows[d]
                  /\ rlLog'[d] = rlLog[d]
            /\ rlOut'.allowed =
                 (Cardinality({i \in 1..Len(rlLog[c]) :
                                 now - rlLog[c][i] <= RATE_LIMIT_WINDOW})
                    < RATE_LIMIT_REQUESTS)]_vars

\* C11 witness: c1 has used up its quota and has been turned away, and the
\* first check of c2, made after that inside the same window, is admitted
C11_Witness ==
    /\ rlOut.client = "c2" /\ rlOut.allowed
    /\ rlOut.n = RATE_LIMIT_REQUESTS + 2
    /\ Len(rlLog["c2"]) = 1
    /\ Len(rlLog["c1"]) = RATE_LIMIT_REQUESTS
    /\ Cardinality(RecentAdmitted("c1", now)) = RATE_LIMIT_REQUESTS

\* ======================================================================
\* Properties of the memory cache (checked under SpecCache)
\* ======================================================================
GetStep(k) == cOut'.n = cOut.n + 1 /\ cOut'.op = "get" /\ cOut'.key = k
SetStep(k) == cOut'.n = cOut.n + 1 /\ cOut'.op = "set" /\ cOut'.key = k

\* C12: whatever the capacity max_size >= 1 and whatever get, set and clear
\* calls were made, the memory cache holds at most max_size entries.
C12_SizeBounded ==
    Cardinality(DOMAIN mem) <= max_size

\* C12 witness: a cache of capacity 2 is full after a set that had to evict
C12_Witness ==
    /\ max_size = 2
    /\ cOut.op = "set"
    /\ Cardinality(DOMAIN mem) = max_size
    /\ \E k \in CacheKeys : used[k] > 0 /\ stored[k] = NoEntry /\ k \notin DOMAIN mem

\* C13: a set of a new key into a full cache evicts exactly one entry, one
\* whose most recent get hit or insertion is the oldest among the entries, and
\* leaves the other entries as they were; a get hit makes its key the most
\* recently used one.
C13_LruEviction ==
    [][\A k \in CacheKeys :
          /\ (SetStep(k) /\ k \notin DOMAIN mem /\ Cardinality(DOMAIN mem) = max_size)
             => \E v \in DOMAIN mem :
                   /\ \A x \in DOMAIN mem : used[v] <= used[x]
                   /\ DOMAIN mem' = (DOMAIN mem \ {v}) \cup {k}
                   /\ \A x \in DOMAIN mem \ {v} : mem'[x] = mem[x]
          /\ (GetStep(k) /\ cOut'.result # 0)
             => /\ order' # <<>>
                /\ order'[Len(order')] = k
                /\ DOMAIN mem' = DOMAIN mem]_vars

\* C13 witness: capacity 2, set A, set B, get A (a hit), set C: B was evicted
C13_Witness ==
    /\ max_size = 2
    /\ cOut.n = 4 /\ cOut.op = "set" /\ cOut.key = "C"
    /\ used["B"] = 2 /\ used["A"] = 3 /\ used["C"] = 4
    /\ DOMAIN mem = {"A", "C"}

\* C14: while the entry of the latest set(k, d), made at time T, has not been
\* evicted or cleared, a get(k) before T + ttl returns d, and a get(k) after
\* T + ttl returns None and leaves no entry of k in the cache.
C14_TtlExpiry ==
    [][\A k \in CacheKeys :
          (GetStep(k) /\ stored[k] # NoEntry) =>
             /\ now < stored[k].at + ttl => cOut'.result = stored[k].data
             /\ now > stored[k].at + ttl =>
                   (cOut'.result = 0 /\ k \notin DOMAIN mem')]_vars

\* C14 witness: with ttl 2, an entry was set, read back, and a get after the
\* lifetime has found it expired and removed it
C14_Witness ==
    /\ ttl = 2
    /\ cOut.n = 3 /\ cOut.op = "get" /\ cOut.result = 0
    /\ stored[cOut.key] # NoEntry
    /\ used[cOut.key] = 2
    /\ now > stored[cOut.key].at + ttl
    /\ cOut.key \notin DOMAIN mem

\* ======================================================================
\* Properties of the request deduplication (checked under SpecGet)
\* ======================================================================
\* the threads inside circuit_breaker.call(_upstream_request, ...) for key k
InFlight(k) == {t \in Threads : pc[t] = "func" /\ key[t] = k}
\* the positions of _cached_get from line 458 to the end of the upstream call
FetchPositions == {"create", "call", "func", "returned", "raised", "rejected"}
\* the positions of _cached_get inside the try block (lines 460-472)
TryPositions == {"call", "func", "returned", "store_file", "finally", "raised", "rejected"}

\* ======================================================================
\* Properties of the two cache layers (checked under SpecClear and SpecGet)
\* ======================================================================
\* C15: once clear_cache has returned, no _cached_get issued afterwards returns
\* a value that was in the cache when the clear began, whatever lookups,
\* promotions and upstream fetches ran beside the clear.
C15_NoStaleAfterClear ==
    \A t \in Threads :
       (pc[t] = "done" /\ t \in clr.after) => t \notin clr.th

\* C16: when a request has fetched a body from upstream and stored it (lines
\* 462-466), the file layer holds that body and so does the memory layer
\* (unless its entry has outlived the memory TTL and is gone), so that the next
\* request for the key is answered with the same body from the cache.
C16_BothLayersHoldFetched ==
    \A t \in GetThreads :
       (pc[t] = "finally" /\ src[t].from = "upstream") =>
          /\ key[t] \in DOMAIN file
          /\ file[key[t]].data = data[t]
          /\ key[t] \in DOMAIN mem => mem[key[t]].data = data[t]

\* C17: a lookup that misses the memory layer and finds an unexpired file
\* entry takes the value of that entry, stores it in the memory layer and
\* returns it, without entering the upstream call (the breaker and the pending
\* fetches are left as they are).
C17_FileHitPromotes ==
    [][\A t \in GetThreads :
          /\ (pc[t] \in {"file", "re_file"} /\ pc'[t] # pc[t] /\ cacheDir = "ok"
                /\ key[t] \in DOMAIN file
                /\ now - file[key[t]].mtime <= CACHE_TTL)
             => (pc'[t] = "promote" /\ data'[t] = file[key[t]].data)
          /\ (pc[t] = "promote" /\ pc'[t] # "promote")
             => /\ pc'[t] = "done"
                /\ data'[t] = data[t]
                /\ key[t] \in DOMAIN mem'
                /\ mem'[key[t]].data = data[t]
                /\ cb' = cb /\ dedup' = dedup
          /\ src'[t].from = "file" => pc'[t] \in {"promote", "done"}]_vars

\* C17 witness: a request that missed the memory layer is about to return the
\* value it found in the file layer, and the memory layer holds that value
C17_Witness ==
    \E t \in GetThreads :
       /\ pc[t] = "done" /\ src[t].from = "file" /\ woke[t] = "none"
       /\ key[t] \in DOMAIN mem /\ key[t] \in DOMAIN file
       /\ mem[key[t]].data = data[t]
       /\ file[key[t]].data = data[t]
       /\ mem[key[t]].timestamp > file[key[t]].mtime

\* a step in which thread t's lookup returns the memory entry / the file entry
MemHitStep(t) == pc[t] \in {"idle", "re_mem"} /\ pc'[t] = "done"
FileHitStep(t) == pc[t] \in {"file", "re_file"} /\ pc'[t] = "promote"

\* C18: once a lookup through the two layers has reported a key absent because
\* an entry of it had expired, no lookup returns that expired value afterwards
\* unless the key was set again in between (by a fetch or by a promotion).
C18_NoResurrection ==
    [][\A t \in GetThreads :
          /\ MemHitStep(t) => MemEntry(key'[t]) \notin gone[key'[t]]
          /\ FileHitStep(t) => FileEntry(key[t]) \notin gone[key[t]]]_vars

\* C35: a value that a lookup takes from the memory layer or from the file
\* layer was first stored (from upstream) at most CACHE_TTL before the lookup,
\* also when the memory entry was put there by a promotion.
C35_ServedWithinDurableTtl ==
    [][\A t \in Threads :
          (MemHitStep(t) \/ FileHitStep(t)) => now - src'[t].born <= CACHE_TTL]_vars

\* C38: a call of _cached_get whose key has an unexpired entry in the memory
\* layer when it looks there, or in the file layer when it looks there,
\* returns that entry's value whatever the state of the breaker: it never
\* enters circuit_breaker.call, and none of its steps changes the breaker.
C38_CacheHitBypassesBreaker ==
    [][\A t \in GetThreads :
          /\ (/\ pc[t] = "idle" /\ pc'[t] # "idle"
              /\ key'[t] \in DOMAIN mem
              /\ now - mem[key'[t]].timestamp <= MEMORY_CACHE_TTL)
             => (pc'[t] = "done" /\ data'[t] = mem[key'[t]].data /\ cb' = cb)
          /\ (/\ pc[t] = "file" /\ pc'[t] # "file"
              /\ cacheDir = "ok"
              /\ key[t] \in DOMAIN file
              /\ now - file[key[t]].mtime <= CACHE_TTL)
             => (pc'[t] = "promote" /\ data'[t] = file[key[t]].data /\ cb' = cb)
          /\ (pc[t] = "promote" /\ pc'[t] # "promote")
             => (pc'[t] = "done" /\ data'[t] = data[t] /\ cb' = cb)
          /\ src'[t].from \in {"mem", "file"}
             => (pc'[t] \in {"promote", "done"} /\ ~probe'[t])]_vars

\* C38 witness: the breaker is OPEN and still rejecting, and the only call
\* under way is about to return the value it found in the memory layer
C38_Witness ==
    /\ cb.state = "OPEN"
    /\ ~RecoveryElapsed(cb, now)
    /\ \E t \in GetThreads :
          /\ pc[t] = "done" /\ src[t].from = "mem" /\ data[t] # 0
          /\ \A u \in GetThreads \ {t} : pc[u] = "idle"

\* C19: while the storage fails, _file_cache_get gives a miss and the request
\* goes on to the fetch, and _file_cache_set changes nothing and the request
\* goes on to its return; a request whose upstream call succeeded never fails
\* and keeps the fetched body as its result.
C19_StorageFailureTolerated ==
    [][\A t \in LoneGetThreads :
          /\ (pc[t] \in {"file", "re_file"} /\ pc'[t] # pc[t] /\ cacheDir # "ok")
             => (data'[t] = 0 /\ pc'[t] \in {"dedup", "create"})
          /\ (pc[t] = "store_file" /\ pc'[t] # pc[t])
             => /\ pc'[t] = "finally"
                /\ cacheDir # "ok" => file' = file
          /\ src[t].from = "upstream"
             => /\ pc'[t] \in {"returned", "store_file", "finally", "done", "idle"}
                /\ pc'[t] # "idle" => data'[t] = data[t]]_vars

\* C19 witness: with the storage failing, a request is about to return the
\* body it fetched; the memory layer holds it and no file was written
C19_Witness ==
    \E t \in LoneGetThreads :
       /\ pc[t] = "done" /\ src[t].from = "upstream"
       /\ cacheDir = "failing"
       /\ data[t] \in Values
       /\ key[t] \notin DOMAIN file
       /\ key[t] \in DOMAIN mem /\ mem[key[t]].data = data[t]

\* ======================================================================
\* Properties of _upstream_request (checked under SpecUp)
\* ======================================================================
\* C20: a call makes at most MAX_RETRIES + 1 attempts; when it returns, the
\* last attempt is the only one answered with 200 and its body is the result;
\* while attempts remain a failed attempt (a retryable one in particular) is
\* followed by another, so the call raises only after exactly MAX_RETRIES + 1
\* attempts, none of them answered with 200.
C20_BoundedRetries ==
    LET n == Len(up.log) IN
    /\ n <= MAX_RETRIES + 1
    /\ up.pos = "returned" =>
          /\ n >= 1
          /\ up.log[n].kind = "200"
          /\ up.result = up.log[n].body
          /\ \A i \in 1..(n - 1) : up.log[i].kind # "200"
    /\ up.pos = "raised" =>
          /\ n = MAX_RETRIES + 1
          /\ \A i \in 1..n : up.log[i].kind # "200"
    /\ (n >= 1 /\ n <= MAX_RETRIES /\ up.log[n].kind # "200") =>
          up.pos \in {"top", "request"}

\* C20 witness: MAX_RETRIES retryable failures, then the last attempt allowed
\* is answered with 200 and the call returns its body
C20_Witness ==
    /\ up.pos = "returned"
    /\ Len(up.log) = MAX_RETRIES + 1
    /\ \A i \in 1..MAX_RETRIES : up.log[i].kind \in Retriable \cup {"timeout", "request_exception"}
    /\ up.result \in Values
    /\ Len(up.delays) = MAX_RETRIES

\* C34: no waiter is left behind: a caller blocked in the wait on a pending
\* entry has been signaled (its event is set and it is about to wake) or a
\* fetch for its key is still under way in another call.
C34_WaitersSignaled ==
    \A t \in Threads :
       (pc[t] = "wait" /\ ev[t] \notin DOMAIN evSet) =>
          \E u \in Threads \ {t} :
             key[u] = key[t] /\ pc[u] \in TryPositions \cup {"create"}

\* ======================================================================
\* Properties of circuit_breaker.call(_upstream_request) (under SpecFetch)
\* ======================================================================
\* C22: one fetch changes the breaker's accounting exactly once, by its
\* overall outcome: no attempt and no retry inside the fetch changes the
\* breaker; when the fetch finally fails, failures goes up by exactly 1; when
\* it finally succeeds, failures is reset (HALF_OPEN) or goes down by one, not
\* below 0 (CLOSED); and the fetch ends in no other way.
C22_AccountedOnce ==
    [][\A t \in LoneGetThreads :
          /\ (pc[t] = "func" /\ pc'[t] = "func") => cb' = cb
          /\ (pc[t] = "func" /\ pc'[t] # "func") =>
                \/ /\ pc'[t] = "raised"
                   /\ up.pos = "raised"
                   /\ cb'.failures = cb.failures + 1
                \/ /\ pc'[t] = "returned"
                   /\ up.pos = "returned"
                   /\ cb'.failures = IF cb.state = "HALF_OPEN" THEN 0
                                     ELSE Max(0, cb.failures - 1)
          /\ (pc[t] \in {"raised", "returned"}) => cb' = cb]_vars

\* C22 witness: a fetch that made every attempt it may make has failed, and
\* the breaker counts one failure
C22_Witness ==
    \E t \in LoneGetThreads :
       /\ pc[t] = "raised"
       /\ Len(up.log) = MAX_RETRIES + 1
       /\ cb.failures = 1

\* C21: an attempt answered with a non-retryable status (not 200, 429, 502,
\* 503, 504) is the only attempt of its call: it is the first and the last
\* entry of the call's log, no request and no backoff sleep follows it.
C21_NonRetryableFailsAtOnce ==
    \A i \in 1..Len(up.log) :
       up.log[i].kind \in {"error_status", "other_status"} =>
          /\ i = 1
          /\ Len(up.log) = 1
          /\ up.delays = <<>>
          /\ up.pos # "request"

\* ======================================================================
\* Properties of the request deduplication (checked under SpecGet)
\* ======================================================================
\* C23: a caller whose wait on a pending entry ended because REQUEST_TIMEOUT
\* ran out raises a timeout error: once the wait has returned (the caller
\* stands at line 449) it looks into no cache, makes no fetch and returns no
\* data; the only way on is the failure of its call.
C23_WaitTimeoutFails ==
    \A t \in Threads :
       woke[t] = "timeout" => pc[t] \in {"re_mem", "failed"}

\* C24: no pending entry leaks: whenever no call of _cached_get is in
\* progress, request_deduplication is empty; and a call that has passed its
\* finally block leaves no entry for its key unless another call is still
\* between the creation of its entry and its own finally block.
C24_NoEntryLeaks ==
    /\ (\A t \in Threads : pc[t] \in {"idle", "done", "failed"}) => dedup = <<>>
    /\ \A k \in DOMAIN dedup :
          \E t \in Threads : key[t] = k /\ pc[t] \in TryPositions

\* C24 witness: two calls created an entry for the same key one after the
\* other; the first has finished with an exception, the second with data,
\* and no entry is left
C24_Witness ==
    /\ pc[1] = "failed" /\ woke[1] = "none"
    /\ pc[2] = "done" /\ woke[2] = "timeout" /\ src[2].from = "upstream"
    /\ dedup = <<>>
\* ---------------------------- /api/cache/clear and /api/circuit-breaker/reset
AdminRoutes == {"clear", "reset"}

\* lines 678 and 701: _require_token() of the two routes
AdminCheck(t) ==
    /\ req[t].stage = "func"
    /\ req[t].endpoint \in AdminRoutes
    /\ req' = [req EXCEPT
                 ![t].stage = IF req[t].token = "ok" THEN req[t].endpoint ELSE "http_exc",
                 ![t].status = IF req[t].token = "ok" THEN 0 ELSE 401]
    /\ UNCHANGED <<now, cbVars, thVars, rlVars, cacheVars, ddVars, locVars, unitVars, up,
                   histVars, errors, active_requests, cfgVars>>

\* lines 680-689: the body of clear_cache runs
ClearRun(t) ==
    /\ req[t].stage = "clear"
    /\ (ClearBegin(t) \/ ClearFiles(t) \/ MakeDirs(t))

\* lines 691-692: return jsonify({'status': 'Cache cleared'})
ClearRespond(t) ==
    /\ req[t].stage = "clear"
    /\ ClearLeave(t)
    /\ req' = [req EXCEPT ![t].stage = "leave", ![t].status = 200]
    /\ UNCHANGED <<errors, active_requests, cfgVars>>

\* lines 703-708: the state object is replaced under the breaker's lock,
\* return jsonify({'status': 'Circuit breaker reset'})
ResetRoute(t) ==
    /\ req[t].stage = "reset"
    /\ cb' = CircuitBreakerState
    /\ req' = [req EXCEPT ![t].stage = "leave", ![t].status = 200]
    /\ UNCHANGED <<now, thVars, rlVars, cacheVars, ddVars, locVars, unitVars, up,
                   histVars, errors, active_requests, cfgVars>>

AdminCall(t) ==
    \/ \E e \in AdminRoutes, c \in ApiClients, tok \in Tokens :
          TrackArrive(t, e, c, tok, "none")
    \/ TrackLoad(t)
    \/ TrackEnter(t)
    \/ AdminCheck(t)
    \/ ClearRun(t)
    \/ ClearRespond(t)
    \/ ResetRoute(t)
    \/ TrackHttpError(t)
    \/ TrackUnload(t)
    \/ TrackLeave(t)
    \/ Respond(t)

\* no administration request is being served / no fetch is under way
AdminAtRest == \A t \in ClearThreads : req[t].stage = "none"
GetAtRest == \A t \in LoneGetThreads : pc[t] = "idle"

\* administration requests and fetches of weather data (which fill the
\* caches and move the breaker), one after the other
NextAdmin ==
    \/ Tick
    \/ \E t \in LoneGetThreads : AdminAtRest /\ DirectCall(t)
    \/ \E t \in ClearThreads : GetAtRest /\ AdminCall(t)

SpecAdmin == Init /\ [][NextAdmin]_vars


\* ======================================================================
\* Properties of /api/weather inside _track_request (checked under SpecApi)
\* ======================================================================
\* the step in which the weather route of thread t turns the exception of
\* _cached_get into its answer
WeatherFailStep(t) ==
    /\ req[t].endpoint = "weather"
    /\ req[t].stage = "get"
    /\ pc[t] = "failed"
    /\ req'[t].stage = "http_exc"

\* C26: a weather request that missed the cache and whose upstream call the
\* OPEN breaker rejected is answered with 503; one whose upstream call was
\* made and failed is answered with 502.
C26_OpenAnswers503 ==
    [][\A t \in Threads :
          WeatherFailStep(t) =>
             req'[t].status = IF src[t].from = "breaker" THEN 503 ELSE 502]_vars

\* C27: every request that was rejected or failed (429, 401, 400, the
\* rejection by the open breaker, an upstream failure) has added a record to
\* the error tracker by the time its response goes out.
C27_EveryErrorRecorded ==
    \A t \in Threads :
       (req[t].stage = "resp" /\ req[t].status >= 400) => req[t].recorded >= 1

\* C28: a request with a missing or invalid token or with invalid coordinates
\* (and not turned away by the rate limiter) changes nothing in the
\* rate-limit windows, the caches, the breaker or the deduplication map in
\* any of its steps, from its arrival on.
C28_RejectedChangesNothing ==
    [][\A t \in Threads :
          (/\ req'[t].endpoint = "weather"
           /\ (req'[t].token = "bad" \/ req'[t].coords = "bad")
           /\ req'[t].status # 429
           /\ req'[t] # req[t])
          => UNCHANGED <<windows, mem, order, file, cb, dedup>>]_vars

\* C40: no request adds more than one record to the error tracker, and a
\* request answered with 400, 401, 500 or 502 has added exactly one by the
\* time its response goes out.
C40_OneRecordPerRequest ==
    \A t \in Threads :
       /\ req[t].recorded <= 1
       /\ (req[t].stage = "resp" /\ req[t].status \in {400, 401, 500, 502})
             => req[t].recorded = 1

\* ======================================================================
\* Properties of /api/health (checked under SpecHealth)
\* ======================================================================
\* the step in which the health route of thread t decides its answer
HealthStep(t) ==
    /\ req[t].endpoint = "health"
    /\ req[t].stage = "func"
    /\ req'[t].stage = "leave"

C30_FiftyErrorsDegrade ==
    [][\A t \in Threads :
          (/\ HealthStep(t)
           /\ max_error_rate = MAX_ERROR_RATE
           /\ Cardinality(RecentErrors(errors, now)) >= InjectedErrors)
          => (req'[t].status = 503 /\ req'[t].health = "degraded")]_vars

\* ======================================================================
\* Properties of the administration routes (checked under SpecAdmin)
\* ======================================================================
\* the caches are empty / the breaker is as new when the route answers
ClearedOnReturn ==
    [][\A t \in Threads :
          (req[t].stage = "clear" /\ req'[t].stage = "leave")
             => (DOMAIN mem' = {} /\ DOMAIN file' = {})]_vars
ResetOnReturn ==
    [][\A t \in Threads :
          (req[t].stage = "reset" /\ req'[t].stage = "leave")
             => (cb'.state = "CLOSED" /\ cb'.failures = 0)]_vars

\* C32: a POST to /api/cache/clear or /api/circuit-breaker/reset with a valid
\* token is answered 200, whatever the state before and however often it is
\* repeated; when it is answered the caches are empty, respectively the
\* breaker is CLOSED with failures = 0, after the second time as after the
\* first.
C32_AdminAlwaysSucceeds ==
    /\ [](\A t \in Threads :
             (req[t].endpoint \in AdminRoutes /\ req[t].token = "ok"
                 /\ req[t].stage = "resp") => req[t].status = 200)
    /\ ClearedOnReturn
    /\ ResetOnReturn

\* the requests inside the wrapped handler: from the increment of line 501
\* to the decrement of line 528
InHandler ==
    {t \in Threads : req[t].stage \in {"func", "get", "http_exc", "leave", "unload"}}

\* C39: active_requests is the number of requests inside a handler wrapped by
\* _track_request, under every interleaving of the request threads; so it is
\* never negative, and it is 0 when no request is in progress.
C39_ActiveRequestsExact ==
    /\ active_requests = Cardinality(InHandler)
    /\ active_requests >= 0
    /\ (\A t \in Threads : req[t].stage = "none") => active_requests = 0

\* C31: a health request never fails: whatever the client sent before, the
\* response that goes out has status 200 or 503.
C31_HealthNeverFails ==
    \A t \in Threads :
       (req[t].endpoint = "health" /\ req[t].stage = "resp") =>
          req[t].status \in {200, 503}

C1_OneUpstreamCallPerKey ==
    \A k \in Keys : Cardinality(InFlight(k)) <= 1

\* C2: a caller that found a pending entry and was woken by the completion of
\* the first caller's fetch never goes on to call upstream itself; it returns
\* the data of that fetch when it succeeded and fails when it failed.
C2_WaiterSharesLeaderOutcome ==
    \A t \in Threads :
       woke[t] = "signal" =>
          /\ pc[t] \notin FetchPositions
          /\ pc[t] = "done" => data[t] = lead[t]
          /\ pc[t] = "failed" => lead[t] = Err

=============================================================================
